---- MODULE Spec2Model ----
(***************************************************************************)
(* Model of the Telegram report bot (src/main.py, src/config.py).          *)
(*                                                                         *)
(* The bot is one ConversationHandler plus a few stateless handlers.  The  *)
(* Application is built without concurrent updates, so every update is     *)
(* handled to completion before the next one is looked at: one action of   *)
(* this model is one whole handler run.  The wall clock still advances     *)
(* while a handler awaits the network, so a handler that reads             *)
(* datetime.now() twice may read two different instants.                   *)
(*                                                                         *)
(* Conversation state is kept by the ConversationHandler per               *)
(* (chat id, user id) (its defaults per_chat = per_user = True, and        *)
(* allow_reentry = False); context.user_data is one dict per user id;      *)
(* user_cooldowns is one module-level dict keyed by user id.               *)
(*                                                                         *)
(* Replies to the submitting user (reply_text, edit_message_text, answer)  *)
(* are taken to succeed; the deliveries to the report channel and to the   *)
(* administrators may each fail.                                           *)
(***************************************************************************)
EXTENDS Integers, Sequences, FiniteSets, TLC

(***************************************************************************)
(* Bounds of the model.                                                    *)
(***************************************************************************)
TickStep == 60          \* granularity of the modelled clock, in seconds
MaxTime == 120          \* the clock is not advanced beyond this instant

Users == {"u1", "u2"}
Chats == {"c1", "c2"}
\* time a handler may spend awaiting the network: the fan-out of a report,
\* and the reply to /report
Delays == {0, TickStep}
ReplyDelays == {0, 2 * TickStep}
MaxPending == 2         \* updates that may wait in the queue at a time

(***************************************************************************)
(* Configuration (src/config.py).                                          *)
(***************************************************************************)
MAX_REPORT_LENGTH == 1000
REPORT_COOLDOWN == 60
REPORT_CHANNEL_ID == "channel"
ADMIN_IDS == <<"admin1", "admin2">>

(***************************************************************************)
(* Conversation states (src/main.py:34); END is ConversationHandler.END,   *)
(* which removes the conversation of the (chat, user) key.                 *)
(***************************************************************************)
REPORT_TYPE == 0
REPORT_TARGET == 1
REPORT_REASON == 2
REPORT_DETAILS == 3
CONFIRMATION == 4
END == -1

REPORT_TYPES == [user |-> "User", group |-> "Group", channel |-> "Channel"]

ReasonKeys == {"spam", "scam", "harassment", "illegal", "impersonation", "other"}

\* str.capitalize() on the reason keys and on the empty string
Capitalize ==
    [spam |-> "Spam", scam |-> "Scam", harassment |-> "Harassment",
     illegal |-> "Illegal", impersonation |-> "Impersonation", other |-> "Other"]
    @@ ("" :> "")

SecondsPerDay == 86400

(***************************************************************************)
(* Text is a sequence of one-character strings.                            *)
(***************************************************************************)
WordChars ==
    {"a","b","c","d","e","f","g","h","i","j","k","l","m","n","o","p","q","r",
     "s","t","u","v","w","x","y","z","0","1","2","3","4","5","6","7","8","9","_"}

HTTP == <<"h","t","t","p",":","/","/","t",".","m","e","/">>
HTTPS == <<"h","t","t","p","s",":","/","/","t",".","m","e","/">>

HasPrefix(s, p) == Len(s) >= Len(p) /\ SubSeq(s, 1, Len(p)) = p

DropPrefix(s, p) == SubSeq(s, Len(p) + 1, Len(s))

AllIn(s, chars) == \A i \in 1..Len(s) : s[i] \in chars

\* str.strip(): remove leading and trailing blanks
RECURSIVE LStrip(_)
LStrip(s) == IF s # <<>> /\ Head(s) = " " THEN LStrip(Tail(s)) ELSE s

RECURSIVE RStrip(_)
RStrip(s) ==
    IF s # <<>> /\ s[Len(s)] = " " THEN RStrip(SubSeq(s, 1, Len(s) - 1)) ELSE s

Strip(s) == RStrip(LStrip(s))

\* r'^@\w{5,32}$'
MatchUsername(s) ==
    /\ HasPrefix(s, <<"@">>)
    /\ Len(s) - 1 >= 5
    /\ Len(s) - 1 <= 32
    /\ AllIn(Tail(s), WordChars)

\* r'^https?://t\.me/[\w\+]+/?$'
MatchLink(s) ==
    \E p \in {HTTP, HTTPS} :
        /\ HasPrefix(s, p)
        /\ LET r == DropPrefix(s, p) IN
            \/ Len(r) >= 1 /\ AllIn(r, WordChars \cup {"+"})
            \/ /\ Len(r) >= 2
               /\ r[Len(r)] = "/"
               /\ AllIn(SubSeq(r, 1, Len(r) - 1), WordChars \cup {"+"})

\* r'^https?://t\.me/\+[\w]+$'
MatchInvite(s) ==
    \E p \in {HTTP, HTTPS} :
        /\ HasPrefix(s, p \o <<"+">>)
        /\ LET r == DropPrefix(s, p \o <<"+">>) IN
            Len(r) >= 1 /\ AllIn(r, WordChars)

validate_target(target) ==
    MatchUsername(target) \/ MatchLink(target) \/ MatchInvite(target)


(***************************************************************************)
(* Dicts are functions whose domain is the set of keys present.            *)
(***************************************************************************)
EmptyDict == [k \in {} |-> 0]

Put(d, k, v) == [x \in DOMAIN d \cup {k} |-> IF x = k THEN v ELSE d[x]]

DraftKeys == {"report_type", "report_target", "report_reason", "report_details"}

\* the text stored by skip_details
NoDetails ==
    <<"N","o"," ","a","d","d","i","t","i","o","n","a","l"," ","d","e","t","a","i","l","s"," ","p","r","o","v","i","d","e","d",".">>

(***************************************************************************)
(* Inputs.  An update is a command, a button press (callback query) or a   *)
(* free-text message; the callback data is tag followed by key, e.g.       *)
(* type_user is tag "type_", key "user".                                   *)
(***************************************************************************)
Filled(n) == [i \in 1..n |-> "x"]

PressedTypes == {"user", "group"}
PressedReasons == {"spam"}

Texts ==
    { <<"@","a","b","c","d","e">>,
      <<" ","@","a","b","c","d","e"," ">>,
      Filled(MAX_REPORT_LENGTH + 1) }

Command(name) == [kind |-> "command", tag |-> name, key |-> "", text |-> <<>>]
Button(tag, key) == [kind |-> "callback", tag |-> tag, key |-> key, text |-> <<>>]
Message(text) == [kind |-> "text", tag |-> "", key |-> "", text |-> text]

StatelessCommands == {"start", "help", "myreports"}

Updates ==
    {Command(n) : n \in {"report", "cancel", "skip"} \cup StatelessCommands}
    \cup {Button("type_", k) : k \in PressedTypes}
    \cup {Button("reason_", k) : k \in PressedReasons}
    \cup {Button("confirm", ""), Button("cancel", ""), Button("resolve_", "u1")}
    \cup {Message(t) : t \in Texts}

(***************************************************************************)
(* Routing: ConversationHandler as configured in setup().  With a          *)
(* conversation under way (state # END) only the handlers of the state     *)
(* and the fallbacks are tried; the entry point is tried only when there   *)
(* is no conversation for the (chat, user) key.                            *)
(***************************************************************************)
ConvRoute(state, upd) ==
    IF state = END
    THEN IF upd.kind = "command" /\ upd.tag = "report" THEN "report_command" ELSE "none"
    ELSE IF state = REPORT_TYPE /\ upd.kind = "callback" /\ upd.tag \in {"type_", "cancel"}
    THEN "report_type_callback"
    ELSE IF state = REPORT_TARGET /\ upd.kind = "text"
    THEN "report_target"
    ELSE IF state = REPORT_REASON /\ upd.kind = "callback" /\ upd.tag \in {"reason_", "cancel"}
    THEN "report_reason_callback"
    ELSE IF state = REPORT_DETAILS /\ upd.kind = "text"
    THEN "report_details"
    ELSE IF state = REPORT_DETAILS /\ upd.kind = "command" /\ upd.tag = "skip"
    THEN "skip_details"
    ELSE IF state = CONFIRMATION /\ upd.kind = "callback" /\ upd.tag \in {"confirm", "cancel"}
              /\ upd.key = ""
    THEN "confirmation_callback"
    ELSE IF upd.kind = "command" /\ upd.tag = "cancel"
    THEN "cancel"
    ELSE "none"

\* the handlers of the application, in the order setup() adds them
Route(state, upd) ==
    IF upd.kind = "command" /\ upd.tag \in StatelessCommands
    THEN upd.tag
    ELSE IF ConvRoute(state, upd) # "none"
    THEN ConvRoute(state, upd)
    ELSE IF upd.kind = "callback" /\ upd.tag \in {"resolve_", "reject_"}
    THEN "admin_callback"
    ELSE "none"


(***************************************************************************)
(* State.                                                                  *)
(***************************************************************************)
VARIABLES
    now,              \* the wall clock, in seconds
    conversations,    \* ConversationHandler: (chat, user) -> state, END if none
    user_data,        \* context.user_data: user -> dict
    user_cooldowns,   \* the module-level dict: user -> end of the cooldown
    last,             \* what the latest step did in the report flow
    dispatched,       \* number of reports composed by save_report
    report_times,     \* user -> time stamped on the user's latest report
    update_queue,     \* Application.update_queue: updates received, not yet handled
    entered           \* history: (chat, user) -> what the user has entered in the
                      \* conversation since the /report that opened it

vars ==
    <<now, conversations, user_data, user_cooldowns, last, dispatched,
      report_times, update_queue, entered>>

NoText ==
    [type |-> "", target |-> <<>>, reason |-> "", details |-> <<>>, reporter |-> ""]

\* the observation of one run of a handler of the report flow; the handlers
\* fill in what they did.  A step outside the flow leaves Obs("none", ...).
Obs(handler, u, c, reply) ==
    [handler |-> handler, user |-> u, chat |-> c, data |-> "", reply |-> reply,
     remaining |-> 0, raised |-> FALSE, text |-> NoText,
     stamp |-> 0, attempts |-> <<>>, elapsed |-> 0]

Init ==
    /\ now = 0
    /\ conversations = [k \in Chats \X Users |-> END]
    /\ user_data = [u \in Users |-> EmptyDict]
    /\ user_cooldowns = EmptyDict
    /\ last = Obs("none", "", "", "")
    /\ dispatched = 0
    /\ report_times = EmptyDict
    /\ update_queue = << >>
    /\ entered = [k \in Chats \X Users |-> EmptyDict]

(***************************************************************************)
(* Helpers of the handlers.                                                *)
(***************************************************************************)
\* the ConversationHandler stores the state a handler returns
SetState(convs, c, u, state) == [convs EXCEPT ![<<c, u>>] = state]

\* one dict shared by all users
StoreShared(ud, u, key, value) == [v \in DOMAIN ud |-> Put(ud[v], key, value)]

\* context.user_data[key] = value
Store(ud, u, key, value) == [ud EXCEPT ![u] = Put(ud[u], key, value)]

\* context.user_data.clear()
Clear(ud, u) == [ud EXCEPT ![u] = EmptyDict]

\* a handler that never takes its cancel branch
IsCancelNever(upd) == FALSE

\* query.data == 'cancel' in the three button handlers
IsCancel(upd) == upd.tag = "cancel"

\* the cooldown still blocks at the instant it ends
IsBlockedInclusive(cooldowns, u, t) == u \in DOMAIN cooldowns /\ t <= cooldowns[u]

\* report_command, lines 89-91
IsBlocked(cooldowns, u, t) == u \in DOMAIN cooldowns /\ t < cooldowns[u]

\* timedelta.seconds of (a - b): the days are dropped, the rest is in 0..86399
Seconds(a, b) ==
    IF a >= b
    THEN (a - b) % SecondsPerDay
    ELSE (SecondsPerDay - ((b - a) % SecondsPerDay)) % SecondsPerDay

\* a cooldown record is written once and never overwritten
SetCooldownOnce(cooldowns, u, t) ==
    IF u \in DOMAIN cooldowns THEN cooldowns ELSE Put(cooldowns, u, t + REPORT_COOLDOWN)

\* confirmation_callback, line 266
SetCooldown(cooldowns, u, t) == Put(cooldowns, u, t + REPORT_COOLDOWN)

\* user_data[...] of the four draft keys raises KeyError when one is absent,
\* and so does REPORT_TYPES[...] of a type it does not hold
HasDraft(d) ==
    /\ DraftKeys \subseteq DOMAIN d
    /\ d["report_type"] \in DOMAIN REPORT_TYPES

Min(a, b) == IF a <= b THEN a ELSE b

\* the summary composed by confirm_report
Summary(d) ==
    [type |-> REPORT_TYPES[d["report_type"]],
     target |-> d["report_target"],
     reason |-> Capitalize[d["report_reason"]],
     details |-> SubSeq(d["report_details"], 1, Min(200, Len(d["report_details"]))),
     reporter |-> ""]

\* the report text composed by save_report
ReportText(d, u) ==
    [type |-> REPORT_TYPES[d["report_type"]],
     target |-> d["report_target"],
     reason |-> Capitalize[d["report_reason"]],
     details |-> d["report_details"],
     reporter |-> u]

\* save_report, lines 297-305: one attempt at the channel, failure is logged
SendToChannel(failed) ==
    IF REPORT_CHANNEL_ID # ""
    THEN << [to |-> REPORT_CHANNEL_ID, ok |-> REPORT_CHANNEL_ID \notin failed] >>
    ELSE << >>

\* the loop over the administrators ends at the first failed delivery
RECURSIVE SendToAdminsStop(_, _)
SendToAdminsStop(admins, failed) ==
    IF admins = << >>
    THEN << >>
    ELSE IF Head(admins) \in failed
    THEN << [to |-> Head(admins), ok |-> FALSE] >>
    ELSE << [to |-> Head(admins), ok |-> TRUE] >>
         \o SendToAdminsStop(Tail(admins), failed)

\* save_report, lines 308-326: one attempt per administrator, failure is logged
RECURSIVE SendToAdmins(_, _)
SendToAdmins(admins, failed) ==
    IF admins = << >>
    THEN << >>
    ELSE << [to |-> Head(admins), ok |-> Head(admins) \notin failed] >>
         \o SendToAdmins(Tail(admins), failed)

\* the deliveries of one save_report
FanOut(failed) == SendToChannel(failed) \o SendToAdmins(ADMIN_IDS, failed)

\* the attempts of a fan-out up to and including the first failed one
RECURSIVE UpToFailure(_)
UpToFailure(attempts) ==
    IF attempts = << >> \/ ~Head(attempts).ok
    THEN SubSeq(attempts, 1, Min(1, Len(attempts)))
    ELSE << Head(attempts) >> \o UpToFailure(Tail(attempts))

\* a failed delivery is not caught and leaves save_report as an exception
SaveReportUncaught(d, u, failed) ==
    IF ~HasDraft(d)
    THEN [raised |-> TRUE, text |-> NoText, attempts |-> << >>]
    ELSE [raised |-> \E i \in DOMAIN FanOut(failed) : ~FanOut(failed)[i].ok,
          text |-> ReportText(d, u),
          attempts |-> UpToFailure(FanOut(failed))]

\* save_report: composing the report raises KeyError when a draft key is
\* absent, before anything is sent; a failed delivery is caught and logged
SaveReport(d, u, failed) ==
    IF ~HasDraft(d)
    THEN [raised |-> TRUE, text |-> NoText, attempts |-> << >>]
    ELSE [raised |-> FALSE, text |-> ReportText(d, u), attempts |-> FanOut(failed)]

Recipients == {REPORT_CHANNEL_ID} \cup {ADMIN_IDS[i] : i \in 1..Len(ADMIN_IDS)}


(***************************************************************************)
(* The handlers.  u is the user and c the chat of the update.              *)
(***************************************************************************)
\* the handler of a waiting update is chosen by the state the conversation
\* had when the update was sent
StateStale(c, u) ==
    IF update_queue # << >> THEN Head(update_queue).seen ELSE conversations[<<c, u>>]

\* the state the ConversationHandler looks up when it handles an update
State(c, u) == conversations[<<c, u>>]

\* /report, the entry point
ReportCommand(u, c, delay) ==
    LET upd == Command("report") IN
    /\ Route(State(c, u), upd) = "report_command"
    /\ IF IsBlocked(user_cooldowns, u, now)
       THEN /\ now + delay <= MaxTime
            /\ now' = now + delay
            /\ last' = [Obs("report_command", u, c, "cooldown") EXCEPT
                           !.remaining = Seconds(user_cooldowns[u], now + delay),
                           !.elapsed = delay]
            /\ conversations' = SetState(conversations, c, u, END)
       ELSE /\ delay = 0
            /\ now' = now
            /\ last' = Obs("report_command", u, c, "type_menu")
            /\ conversations' = SetState(conversations, c, u, REPORT_TYPE)
    /\ UNCHANGED <<user_data, user_cooldowns, dispatched, report_times>>

\* a button press in REPORT_TYPE; REPORT_TYPES[report_type] raises KeyError
\* for a type it does not hold, after the type is stored
ReportTypeCallback(u, c, upd) ==
    /\ Route(State(c, u), upd) = "report_type_callback"
    /\ IF IsCancel(upd)
       THEN /\ last' = [Obs("report_type_callback", u, c, "cancelled") EXCEPT
                           !.data = upd.tag]
            /\ conversations' = SetState(conversations, c, u, END)
            /\ user_data' = user_data
       ELSE /\ user_data' = Store(user_data, u, "report_type", upd.key)
            /\ IF upd.key \in DOMAIN REPORT_TYPES
               THEN /\ last' = [Obs("report_type_callback", u, c, "target_prompt")
                                   EXCEPT !.data = upd.tag]
                    /\ conversations' = SetState(conversations, c, u, REPORT_TARGET)
               ELSE /\ last' = [Obs("report_type_callback", u, c, "") EXCEPT
                                   !.data = upd.tag, !.raised = TRUE]
                    /\ conversations' = conversations
    /\ UNCHANGED <<now, user_cooldowns, dispatched, report_times>>

\* the target is stored and the flow advances whatever the validator says
ReportTargetUnchecked(u, c, upd) ==
    LET target == Strip(upd.text) IN
    /\ Route(State(c, u), upd) = "report_target"
    /\ user_data' = Store(user_data, u, "report_target", target)
    /\ last' = Obs("report_target", u, c, "reason_menu")
    /\ conversations' = SetState(conversations, c, u, REPORT_REASON)
    /\ UNCHANGED <<now, user_cooldowns, dispatched, report_times>>

\* a free-text message in REPORT_TARGET
ReportTarget(u, c, upd) ==
    LET target == Strip(upd.text) IN
    /\ Route(State(c, u), upd) = "report_target"
    /\ IF ~validate_target(target)
       THEN /\ last' = Obs("report_target", u, c, "invalid_format")
            /\ conversations' = SetState(conversations, c, u, REPORT_TARGET)
            /\ user_data' = user_data
       ELSE /\ user_data' = Store(user_data, u, "report_target", target)
            /\ last' = Obs("report_target", u, c, "reason_menu")
            /\ conversations' = SetState(conversations, c, u, REPORT_REASON)
    /\ UNCHANGED <<now, user_cooldowns, dispatched, report_times>>

\* a button press in REPORT_REASON
ReportReasonCallback(u, c, upd) ==
    /\ Route(State(c, u), upd) = "report_reason_callback"
    /\ IF IsCancel(upd)
       THEN /\ last' = [Obs("report_reason_callback", u, c, "cancelled") EXCEPT
                           !.data = upd.tag]
            /\ conversations' = SetState(conversations, c, u, END)
            /\ user_data' = user_data
       ELSE /\ user_data' = Store(user_data, u, "report_reason", upd.key)
            /\ last' = [Obs("report_reason_callback", u, c, "details_prompt") EXCEPT
                           !.data = upd.tag]
            /\ conversations' = SetState(conversations, c, u, REPORT_DETAILS)
    /\ UNCHANGED <<now, user_cooldowns, dispatched, report_times>>

\* confirm_report, called by report_details and skip_details once the
\* details are stored: a missing draft key raises KeyError, and the
\* ConversationHandler keeps the state of a handler that raised
ConfirmReport(handler, u, c, stored) ==
    /\ user_data' = stored
    /\ IF HasDraft(stored[u])
       THEN /\ last' = [Obs(handler, u, c, "summary") EXCEPT
                           !.text = Summary(stored[u])]
            /\ conversations' = SetState(conversations, c, u, CONFIRMATION)
       ELSE /\ last' = [Obs(handler, u, c, "") EXCEPT !.raised = TRUE]
            /\ conversations' = conversations

\* a free-text message in REPORT_DETAILS
ReportDetails(u, c, upd) ==
    LET details == Strip(upd.text) IN
    /\ Route(State(c, u), upd) = "report_details"
    /\ IF Len(details) > MAX_REPORT_LENGTH
       THEN /\ last' = Obs("report_details", u, c, "too_long")
            /\ conversations' = SetState(conversations, c, u, REPORT_DETAILS)
            /\ user_data' = user_data
       ELSE ConfirmReport("report_details", u, c,
                          Store(user_data, u, "report_details", details))
    /\ UNCHANGED <<now, user_cooldowns, dispatched, report_times>>

\* /skip is accepted in every state of a conversation under way
SkipDetailsAnywhere(u, c) ==
    /\ State(c, u) # END
    /\ ConfirmReport("skip_details", u, c,
                     Store(user_data, u, "report_details", NoDetails))
    /\ UNCHANGED <<now, user_cooldowns, dispatched, report_times>>

\* /skip in REPORT_DETAILS
SkipDetails(u, c) ==
    LET upd == Command("skip") IN
    /\ Route(State(c, u), upd) = "skip_details"
    /\ ConfirmReport("skip_details", u, c,
                     Store(user_data, u, "report_details", NoDetails))
    /\ UNCHANGED <<now, user_cooldowns, dispatched, report_times>>

\* a button press in CONFIRMATION.  On confirm, save_report stamps the
\* report with the current time and fans it out; the deliveries in failed
\* raise inside save_report.  The fan-out takes delay seconds, and the
\* cooldown is computed from the clock read after it.  When save_report
\* raises, the handler stops there and the ConversationHandler keeps the
\* state.
ConfirmationCallback(u, c, upd, failed, delay) ==
    LET saved == SaveReport(user_data[u], u, failed)
        composed == IF saved.text # NoText THEN 1 ELSE 0
    IN
    /\ Route(State(c, u), upd) = "confirmation_callback"
    /\ IF IsCancel(upd)
       THEN /\ failed = {} /\ delay = 0
            /\ last' = [Obs("confirmation_callback", u, c, "cancelled") EXCEPT
                           !.data = upd.tag]
            /\ conversations' = SetState(conversations, c, u, END)
            /\ UNCHANGED <<now, user_data, user_cooldowns, dispatched, report_times>>
       ELSE IF saved.raised
       THEN /\ delay = 0
            /\ saved.attempts = << >> => failed = {}
            /\ last' = [Obs("confirmation_callback", u, c, "") EXCEPT
                           !.data = upd.tag,
                           !.raised = TRUE,
                           !.text = saved.text,
                           !.stamp = IF composed = 1 THEN now ELSE 0,
                           !.attempts = saved.attempts]
            /\ dispatched' = dispatched + composed
            /\ report_times' = IF composed = 1 THEN Put(report_times, u, now)
                                               ELSE report_times
            /\ UNCHANGED <<now, conversations, user_data, user_cooldowns>>
       ELSE /\ now + delay <= MaxTime
            /\ now' = now + delay
            /\ dispatched' = dispatched + composed
            /\ report_times' = Put(report_times, u, now)
            /\ user_cooldowns' = SetCooldown(user_cooldowns, u, now + delay)
            /\ last' = [Obs("confirmation_callback", u, c, "success") EXCEPT
                           !.data = upd.tag,
                           !.text = saved.text,
                           !.stamp = now,
                           !.attempts = saved.attempts,
                           !.elapsed = delay]
            /\ user_data' = Clear(user_data, u)
            /\ conversations' = SetState(conversations, c, u, END)

\* /cancel, the fallback of every state
Cancel(u, c) ==
    LET upd == Command("cancel") IN
    /\ Route(State(c, u), upd) = "cancel"
    /\ last' = Obs("cancel", u, c, "operation_cancelled")
    /\ conversations' = SetState(conversations, c, u, END)
    /\ UNCHANGED <<now, user_data, user_cooldowns, dispatched, report_times>>

\* /start, /help, /myreports and the administrators' resolve and reject
\* buttons: a reply or an edit, no state
Stateless(u, c, upd) ==
    /\ Route(State(c, u), upd) \in StatelessCommands \cup {"admin_callback"}
    /\ last' = Obs("none", "", "", "")
    /\ UNCHANGED <<now, conversations, user_data, user_cooldowns, dispatched,
                   report_times>>

\* an update no handler accepts in the current state ends the conversation
UnhandledEnds(u, c, upd) ==
    /\ Route(State(c, u), upd) = "none"
    /\ last' = Obs("none", "", "", "")
    /\ conversations' = SetState(conversations, c, u, END)
    /\ UNCHANGED <<now, user_data, user_cooldowns, dispatched, report_times>>

\* an update no handler accepts in the current state is dropped
Unhandled(u, c, upd) ==
    /\ Route(State(c, u), upd) = "none"
    /\ last' = Obs("none", "", "", "")
    /\ UNCHANGED <<now, conversations, user_data, user_cooldowns, dispatched,
                   report_times>>

\* time passes between updates
Tick ==
    /\ now + TickStep <= MaxTime
    /\ now' = now + TickStep
    /\ last' = Obs("none", "", "", "")
    /\ UNCHANGED <<conversations, user_data, user_cooldowns, dispatched,
                   report_times, update_queue, entered>>

\* the step is the handling of update upd of user u in chat c
Handles(u, c, upd) ==
    \/ upd = Command("report") /\ \E d \in ReplyDelays : ReportCommand(u, c, d)
    \/ ReportTypeCallback(u, c, upd)
    \/ ReportTarget(u, c, upd)
    \/ ReportReasonCallback(u, c, upd)
    \/ ReportDetails(u, c, upd)
    \/ upd = Command("skip") /\ SkipDetails(u, c)
    \/ /\ Route(State(c, u), upd) = "confirmation_callback"
       /\ \E failed \in SUBSET Recipients, d \in Delays :
             ConfirmationCallback(u, c, upd, failed, d)
    \/ upd = Command("cancel") /\ Cancel(u, c)
    \/ Stateless(u, c, upd)
    \/ Unhandled(u, c, upd)

\* the update is handled as it arrives: nothing waits in the queue; the
\* history is not kept
Idle == UNCHANGED <<update_queue, entered>>

\* one update out of updates, sent by a user in users in a chat in chats
\* and handled as it arrives, with a fan-out that takes one of delays, or a
\* tick
Step(users, chats, updates, delays) ==
    \/ \E u \in users, c \in chats, d \in ReplyDelays :
          ReportCommand(u, c, d) /\ Idle
    \/ \E u \in users, c \in chats, upd \in updates :
          ReportTypeCallback(u, c, upd) /\ Idle
    \/ \E u \in users, c \in chats, upd \in updates :
          ReportTarget(u, c, upd) /\ Idle
    \/ \E u \in users, c \in chats, upd \in updates :
          ReportReasonCallback(u, c, upd) /\ Idle
    \/ \E u \in users, c \in chats, upd \in updates :
          ReportDetails(u, c, upd) /\ Idle
    \/ \E u \in users, c \in chats :
          SkipDetails(u, c) /\ Idle
    \/ \E u \in users, c \in chats, upd \in updates, failed \in SUBSET Recipients,
          d \in delays : ConfirmationCallback(u, c, upd, failed, d) /\ Idle
    \/ \E u \in users, c \in chats :
          Cancel(u, c) /\ Idle
    \/ \E u \in users, c \in chats, upd \in updates :
          Stateless(u, c, upd) /\ Idle
    \/ \E u \in users, c \in chats, upd \in updates :
          Unhandled(u, c, upd) /\ Idle
    \/ Tick

\* one user who talks to the bot in every chat
Next == Step({"u1"}, Chats, Updates, Delays)

Spec == Init /\ [][Next]_vars

\* one update of each kind: the commands, the buttons of one flow and one
\* text
FlowUpdates ==
    {Command(n) : n \in {"report", "cancel", "skip", "start"}}
    \cup {Button("type_", "user"), Button("reason_", "spam"), Button("confirm", ""),
          Button("cancel", "")}
    \cup {Message(<<"@","a","b","c","d","e">>)}

\* every user, all of them in one chat and sending the same updates, with
\* a fan-out that takes no time
NextUsers == Step(Users, {"c1"}, FlowUpdates, {0})

SpecUsers == Init /\ [][NextUsers]_vars

\* the updates of one flow, and details of the greatest accepted length and
\* of the least rejected one
DetailUpdates ==
    FlowUpdates
    \cup {Message(Filled(MAX_REPORT_LENGTH)), Message(Filled(MAX_REPORT_LENGTH + 1))}

\* one user who talks to the bot in every chat and writes details of the
\* lengths around MAX_REPORT_LENGTH
NextDetails == Step({"u1"}, Chats, DetailUpdates, {0})

SpecDetails == Init /\ [][NextDetails]_vars

\* an update in the queue: its user, its chat, and the state the
\* conversation had when it was sent
Pending(u, c, upd) ==
    [user |-> u, chat |-> c, upd |-> upd, seen |-> conversations[<<c, u>>]]

\* an update is received and waits in the queue
Receive(u, c, upd) ==
    /\ Len(update_queue) < MaxPending
    /\ update_queue' = Append(update_queue, Pending(u, c, upd))
    /\ UNCHANGED <<now, conversations, user_data, user_cooldowns, last, dispatched,
                   report_times, entered>>

\* the application takes the update at the head of the queue and runs its
\* handler to the end before it takes the next one
ProcessUpdate ==
    /\ update_queue # << >>
    /\ LET e == Head(update_queue) IN Handles(e.user, e.chat, e.upd)
    /\ update_queue' = Tail(update_queue)
    /\ UNCHANGED entered

\* one user in one chat whose updates wait in the queue
NextQueue ==
    \/ \E upd \in FlowUpdates : Receive("u1", "c1", upd)
    \/ ProcessUpdate

SpecQueue == Init /\ [][NextQueue]_vars

\* what the user has entered in the conversation of chat c once upd is
\* handled: /report that opens a conversation starts afresh, and each step
\* of the flow adds the value it accepts
Entered(u, c, upd) ==
    LET k == <<c, u>>
        h == Route(conversations[k], upd)
        With(key, value) == [entered EXCEPT ![k] = Put(entered[k], key, value)]
    IN  IF h = "report_command"
        THEN IF IsBlocked(user_cooldowns, u, now)
             THEN entered
             ELSE [entered EXCEPT ![k] = EmptyDict]
        ELSE IF h = "report_type_callback" /\ ~IsCancel(upd)
        THEN With("report_type", upd.key)
        ELSE IF h = "report_target" /\ validate_target(Strip(upd.text))
        THEN With("report_target", Strip(upd.text))
        ELSE IF h = "report_reason_callback" /\ ~IsCancel(upd)
        THEN With("report_reason", upd.key)
        ELSE IF h = "report_details" /\ Len(Strip(upd.text)) <= MAX_REPORT_LENGTH
        THEN With("report_details", Strip(upd.text))
        ELSE IF h = "skip_details"
        THEN With("report_details", NoDetails)
        ELSE entered

\* an update is handled as it arrives, and the history is kept
Recorded(u, c, upd) ==
    /\ Handles(u, c, upd)
    /\ entered' = Entered(u, c, upd)
    /\ UNCHANGED update_queue

\* the updates of the flow, with two report types to choose from
HistoryUpdates ==
    {Command(n) : n \in {"report", "cancel", "skip"}}
    \cup {Button("type_", "user"), Button("type_", "group"), Button("reason_", "spam"),
          Button("confirm", "")}
    \cup {Message(<<"@","a","b","c","d","e">>)}

\* one user who talks to the bot in every chat, with the history kept
NextHistory == \E c \in Chats, upd \in HistoryUpdates : Recorded("u1", c, upd)

SpecHistory == Init /\ [][NextHistory]_vars


(***************************************************************************)
(* Properties.                                                             *)
(***************************************************************************)
Key(c, u) == <<c, u>>

Reported(u) == u \in DOMAIN report_times

\* the step is a run of save_report that composed a report
Dispatches == dispatched' = dispatched + 1

\* the step takes the conversation of (c, u) from CONFIRMATION to END on a
\* press of the confirm button, i.e. to TERMINAL(submitted)
Submits(u, c) ==
    /\ last'.handler = "confirmation_callback"
    /\ last'.user = u
    /\ last'.chat = c
    /\ last'.data = "confirm"
    /\ conversations[Key(c, u)] = CONFIRMATION
    /\ conversations'[Key(c, u)] = END

\* the step is the handling of a cancel, by button or by /cancel
Cancels ==
    \/ last'.handler = "cancel"
    \/ last'.data = "cancel"

\* C1: two reports of the same user are stamped at least REPORT_COOLDOWN
\* seconds apart: a step that composes a report of a user who has reported
\* before does so no earlier than REPORT_COOLDOWN after the previous stamp.
C1_SubmissionsApart ==
    [][\A u \in Users :
          (Dispatches /\ last'.user = u /\ Reported(u))
              => last'.stamp - report_times[u] >= REPORT_COOLDOWN]_vars

\* C2: /report from a user without a conversation in the chat is answered
\* with the cooldown message, ends the flow and stores nothing exactly when
\* the user has a cooldown record with now < eligible_at; otherwise the
\* conversation moves to REPORT_TYPE.
C2_ReportEntry ==
    [][\A u \in Users, c \in Chats :
          (last'.handler = "report_command" /\ last'.user = u /\ last'.chat = c)
              => LET blocked == u \in DOMAIN user_cooldowns /\ now < user_cooldowns[u]
                 IN  /\ conversations[Key(c, u)] = END
                     /\ blocked <=> last'.reply = "cooldown"
                     /\ blocked <=> conversations'[Key(c, u)] = END
                     /\ ~blocked <=> conversations'[Key(c, u)] = REPORT_TYPE
                     /\ ~blocked <=> last'.reply = "type_menu"
                     /\ user_data' = user_data
                     /\ user_cooldowns' = user_cooldowns]_vars

\* C2, witness: a /report that was answered with the cooldown message
C2_Witness ==
    /\ last.handler = "report_command"
    /\ last.reply = "cooldown"
    /\ last.user \in DOMAIN user_cooldowns
    /\ conversations[Key(last.chat, last.user)] = END

\* C3: every step composes exactly one report when it takes a conversation
\* to TERMINAL(submitted) and none otherwise, so the number of reports
\* equals the number of conversations confirmed, and a confirm pressed
\* again on a submitted conversation composes nothing.
C3_OneDispatchPerSubmission ==
    [][/\ dispatched' \in {dispatched, dispatched + 1}
       /\ Dispatches <=> \E u \in Users, c \in Chats : Submits(u, c)]_vars

\* C3, witness: the second report of a user has just been submitted
C3_Witness ==
    /\ dispatched = 2
    /\ last.reply = "success"
    /\ conversations[Key(last.chat, last.user)] = END

\* C4 as stated: after a confirm the cooldown ends REPORT_COOLDOWN seconds
\* after the time stamped on the report.
C4_CooldownFromStamp ==
    (last.handler = "confirmation_callback" /\ last.reply = "success")
        => user_cooldowns[last.user] = last.stamp + REPORT_COOLDOWN

\* C4, amended: after a confirm the cooldown ends REPORT_COOLDOWN seconds
\* after the clock read once the fan-out has returned, i.e. after the
\* stamp plus the time the fan-out took.
C4_CooldownFromSet ==
    (last.handler = "confirmation_callback" /\ last.reply = "success")
        => /\ last.user \in DOMAIN user_cooldowns
           /\ user_cooldowns[last.user] = last.stamp + last.elapsed + REPORT_COOLDOWN
           /\ user_cooldowns[last.user] = now + REPORT_COOLDOWN

\* C4, witness: a confirm whose fan-out took time, by a user who already
\* had a cooldown record
C4_Witness ==
    /\ last.handler = "confirmation_callback"
    /\ last.reply = "success"
    /\ last.elapsed > 0
    /\ dispatched = 2

\* C5: after a cancel, by button or by /cancel, the user has no current
\* state and no draft field is stored.
C5_CancelClearsSession ==
    (last.handler = "cancel" \/ last.data = "cancel")
        => /\ conversations[Key(last.chat, last.user)] = END
           /\ user_data[last.user] = EmptyDict

\* C6: a cancel composes no report and leaves the cooldown store alone, and
\* the cooldown store changes only in a step that submits a report, and
\* then only in the record of the submitter.
C6_CancelFrame ==
    [][/\ Cancels => (dispatched' = dispatched /\ user_cooldowns' = user_cooldowns)
       /\ user_cooldowns' # user_cooldowns
            => \E u \in Users, c \in Chats :
                  /\ Submits(u, c)
                  /\ last'.reply = "success"
                  /\ \A v \in DOMAIN user_cooldowns :
                        v # u => (v \in DOMAIN user_cooldowns'
                                  /\ user_cooldowns'[v] = user_cooldowns[v])]_vars

\* C6, witness: the cancel button pressed in CONFIRMATION by a user who has
\* a cooldown record
C6_Witness ==
    /\ last.handler = "confirmation_callback"
    /\ last.data = "cancel"
    /\ last.user \in DOMAIN user_cooldowns
    /\ dispatched > 0

\* C7: /report from a user with no active cooldown and a conversation under
\* way starts over: the state becomes REPORT_TYPE and the draft is dropped.
C7_ReportOverwrites ==
    [][\A u \in Users, c \in Chats :
          (/\ conversations[Key(c, u)] # END
           /\ ~IsBlocked(user_cooldowns, u, now)
           /\ Handles(u, c, Command("report")))
              => /\ conversations'[Key(c, u)] = REPORT_TYPE
                 /\ user_data'[u] = EmptyDict]_vars

\* what the bot keeps about user u
Kept(u) ==
    <<[c \in Chats |-> conversations[Key(c, u)]],
      user_data[u],
      IF u \in DOMAIN user_cooldowns THEN {user_cooldowns[u]} ELSE {}>>

\* C8: the handling of an update of user a leaves the state, the draft and
\* the cooldown record of every other user as they were; the summary shown
\* to a and the report dispatched for a are made of a's own draft.
C8_Isolation ==
    [][\A b \in Users :
          /\ last'.user # b => Kept(b)' = Kept(b)
          /\ (last'.user = b /\ last'.reply = "summary")
                => /\ last'.text.type = REPORT_TYPES[user_data'[b]["report_type"]]
                   /\ last'.text.target = user_data'[b]["report_target"]
                   /\ last'.text.reason = Capitalize[user_data'[b]["report_reason"]]
          /\ (last'.user = b /\ last'.attempts # << >>)
                => /\ last'.text.type = REPORT_TYPES[user_data[b]["report_type"]]
                   /\ last'.text.target = user_data[b]["report_target"]
                   /\ last'.text.reason = Capitalize[user_data[b]["report_reason"]]
                   /\ last'.text.details = user_data[b]["report_details"]
                   /\ last'.text.reporter = b]_vars

\* C8, witness: two users are in the middle of their flows, in different
\* states, one of them with a cooldown record
C8_Witness ==
    /\ conversations[Key("c1", "u1")] = CONFIRMATION
    /\ conversations[Key("c1", "u2")] = REPORT_REASON
    /\ "u2" \in DOMAIN user_cooldowns
    /\ "u1" \notin DOMAIN user_cooldowns
    /\ last.user = "u2"

Attempts(to) == {i \in DOMAIN last.attempts : last.attempts[i].to = to}

\* C9: whenever save_report has fanned a report out, every configured
\* administrator was attempted exactly once, and so was the channel,
\* whichever of the deliveries failed.
C9_EveryAdminOnce ==
    last.text.reporter # ""
        => /\ \A i \in 1..Len(ADMIN_IDS) : Cardinality(Attempts(ADMIN_IDS[i])) = 1
           /\ Cardinality(Attempts(REPORT_CHANNEL_ID)) = 1

\* C9, witness: the channel and the first administrator failed and the
\* second administrator was still attempted
C9_Witness ==
    /\ last.text.reporter # ""
    /\ Len(last.attempts) = 3
    /\ ~last.attempts[1].ok
    /\ ~last.attempts[2].ok
    /\ last.attempts[3].ok

\* C10: a confirm that attempted deliveries ends, whatever their outcomes,
\* with the success message, the submitter's cooldown set, the draft
\* cleared and the conversation ended.
C10_SuccessRegardless ==
    (last.handler = "confirmation_callback" /\ last.attempts # << >>)
        => /\ last.reply = "success"
           /\ ~last.raised
           /\ last.user \in DOMAIN user_cooldowns
           /\ user_cooldowns[last.user] = now + REPORT_COOLDOWN
           /\ user_data[last.user] = EmptyDict
           /\ conversations[Key(last.chat, last.user)] = END

\* C10, witness: a confirm of which every delivery failed
C10_Witness ==
    /\ last.handler = "confirmation_callback"
    /\ last.attempts # << >>
    /\ \A i \in DOMAIN last.attempts : ~last.attempts[i].ok
    /\ last.reply = "success"

\* C11: a free-text message handled in REPORT_DETAILS whose text, stripped
\* as the handler strips it, has at most MAX_REPORT_LENGTH characters is
\* stored as the details and moves the conversation to CONFIRMATION; a
\* longer one is answered with the too-long reply, leaves the conversation
\* in REPORT_DETAILS and leaves the draft as it was.
C11_DetailsBoundary ==
    [][\A u \in Users, c \in Chats, upd \in DetailUpdates :
          (/\ upd.kind = "text"
           /\ conversations[Key(c, u)] = REPORT_DETAILS
           /\ Handles(u, c, upd))
              => IF Len(Strip(upd.text)) <= MAX_REPORT_LENGTH
                 THEN /\ "report_details" \in DOMAIN user_data'[u]
                      /\ user_data'[u]["report_details"] = Strip(upd.text)
                      /\ conversations'[Key(c, u)] = CONFIRMATION
                 ELSE /\ last'.reply = "too_long"
                      /\ conversations'[Key(c, u)] = REPORT_DETAILS
                      /\ user_data' = user_data]_vars

\* C12: a free-text message handled in REPORT_TARGET whose stripped text the
\* validator rejects gets the invalid-format reply and leaves the
\* conversation in REPORT_TARGET and the draft as it was, however many
\* times in a row; one the validator accepts stores the stripped text as
\* the target and moves the conversation to REPORT_REASON.  A conversation
\* leaves REPORT_TARGET for REPORT_REASON, and a target is stored, only in
\* such an accepting step.
C12_TargetValidation ==
    [][\A u \in Users, c \in Chats :
          /\ \A upd \in Updates :
                (/\ upd.kind = "text"
                 /\ conversations[Key(c, u)] = REPORT_TARGET
                 /\ Handles(u, c, upd))
                    => IF validate_target(Strip(upd.text))
                       THEN /\ "report_target" \in DOMAIN user_data'[u]
                            /\ user_data'[u]["report_target"] = Strip(upd.text)
                            /\ conversations'[Key(c, u)] = REPORT_REASON
                            /\ last'.reply = "reason_menu"
                       ELSE /\ last'.reply = "invalid_format"
                            /\ conversations'[Key(c, u)] = REPORT_TARGET
                            /\ user_data' = user_data
          /\ (\/ /\ conversations[Key(c, u)] = REPORT_TARGET
                 /\ conversations'[Key(c, u)] = REPORT_REASON
              \/ /\ "report_target" \in DOMAIN user_data'[u]
                 /\ "report_target" \notin DOMAIN user_data[u])
                => /\ last'.handler = "report_target"
                   /\ last'.user = u
                   /\ last'.reply = "reason_menu"
                   /\ validate_target(user_data'[u]["report_target"])]_vars

\* C12, witness: a rejected target, with the conversation still in
\* REPORT_TARGET and no target stored
C12_Witness ==
    /\ last.handler = "report_target"
    /\ last.reply = "invalid_format"
    /\ conversations[Key(last.chat, last.user)] = REPORT_TARGET
    /\ "report_target" \notin DOMAIN user_data[last.user]

\* C13: the summary shown when a conversation enters CONFIRMATION holds the
\* stored type under its display name, the stored target, the stored
\* reason capitalized and the stored details in full.
C13_SummaryVerbatim ==
    last.reply = "summary"
        => LET d == user_data[last.user] IN
           /\ conversations[Key(last.chat, last.user)] = CONFIRMATION
           /\ last.text.type = REPORT_TYPES[d["report_type"]]
           /\ last.text.target = d["report_target"]
           /\ last.text.reason = Capitalize[d["report_reason"]]
           /\ last.text.details = d["report_details"]

FlowHandlers ==
    {"report_command", "report_type_callback", "report_target",
     "report_reason_callback", "report_details", "skip_details",
     "confirmation_callback", "cancel"}

\* C14: the updates that wait are handled one at a time, each against the
\* state the conversation has when its turn comes, not the state it was
\* sent in: the handler that runs is the one registered for the current
\* state, and an update with no handler in the current state changes
\* nothing.  So of two updates sent in the same state, once the first has
\* moved the conversation out of that state the second fires no transition
\* from it; in particular a report is composed only out of CONFIRMATION.
C14_OneAtATime ==
    [][(update_queue # << >> /\ update_queue' = Tail(update_queue))
          => LET e == Head(update_queue)
                 k == Key(e.chat, e.user)
                 h == Route(conversations[k], e.upd)
             IN  /\ IF h \in FlowHandlers
                    THEN /\ last'.handler = h
                         /\ last'.user = e.user
                         /\ last'.chat = e.chat
                    ELSE /\ last' = Obs("none", "", "", "")
                         /\ UNCHANGED <<conversations, user_data, user_cooldowns,
                                        dispatched>>
                 /\ \A j \in DOMAIN conversations :
                        j # k => conversations'[j] = conversations[j]
                 /\ Dispatches
                      => /\ conversations[k] = CONFIRMATION
                         /\ conversations'[k] = END]_vars

\* C14, witness: two presses of the confirm button were sent in
\* CONFIRMATION; the first has been handled and has submitted the report,
\* the second still waits and will find the conversation ended
C14_Witness ==
    /\ Len(update_queue) = 1
    /\ Head(update_queue).upd = Button("confirm", "")
    /\ Head(update_queue).seen = CONFIRMATION
    /\ conversations[Key(Head(update_queue).chat, Head(update_queue).user)] = END
    /\ last.handler = "confirmation_callback"
    /\ last.reply = "success"
    /\ dispatched = 1

\* C15: a press of the confirm button handled in CONFIRMATION while one of
\* the four draft keys is absent ends the conversation, clears the draft,
\* tells the user to start again and composes and delivers no report.
C15_MissingFieldAborts ==
    [][\A u \in Users, c \in Chats :
          (/\ conversations[Key(c, u)] = CONFIRMATION
           /\ ~(DraftKeys \subseteq DOMAIN user_data[u])
           /\ Handles(u, c, Button("confirm", "")))
              => /\ conversations'[Key(c, u)] = END
                 /\ user_data'[u] = EmptyDict
                 /\ last'.reply = "restart"
                 /\ ~last'.raised
                 /\ dispatched' = dispatched
                 /\ last'.attempts = << >>]_vars

Has(u, key) == key \in DOMAIN user_data[u]

\* C16: for every user the draft keys are present in step order: details
\* only with reason, reason only with target, target only with type; and
\* whenever a conversation of the user is in CONFIRMATION all four keys
\* are present.
C16_DraftInStepOrder ==
    \A u \in Users :
        /\ Has(u, "report_details") => Has(u, "report_reason")
        /\ Has(u, "report_reason") => Has(u, "report_target")
        /\ Has(u, "report_target") => Has(u, "report_type")
        /\ \A c \in Chats :
              conversations[Key(c, u)] = CONFIRMATION
                  => DraftKeys \subseteq DOMAIN user_data[u]

FreeTextStates == {REPORT_TARGET, REPORT_DETAILS}

\* the states whose inputs are buttons, with the tags of their buttons
ButtonTags ==
    (REPORT_TYPE :> {"type_", "cancel"})
    @@ (REPORT_REASON :> {"reason_", "cancel"})
    @@ (CONFIRMATION :> {"confirm", "cancel"})

\* the input has no row in the transition table for the state: a button in
\* a free-text state; free text, /skip or a button of another step in a
\* button state; anything but /report with no conversation; and /start,
\* /help and /myreports in every state.  /cancel with a conversation under
\* way is the cancel edge of every state, and /report with a conversation
\* under way is the case of C7.
Unlisted(state, upd) ==
    \/ state \in FreeTextStates /\ upd.kind = "callback"
    \/ /\ state \in DOMAIN ButtonTags
       /\ \/ upd.kind = "text"
          \/ upd = Command("skip")
          \/ upd.kind = "callback" /\ upd.tag \notin ButtonTags[state]
    \/ state = END /\ upd # Command("report")
    \/ upd.kind = "command" /\ upd.tag \in StatelessCommands

\* C17: the handling of an input that has no row in the transition table
\* for the current state of the conversation leaves every conversation
\* state, every draft and the cooldown store as they were and composes no
\* report.
C17_UnlistedInputIgnored ==
    [][\/ /\ UNCHANGED <<conversations, user_data, user_cooldowns, dispatched,
                          report_times>>
          /\ last'.handler = "none"
       \/ \A u \in Users, c \in Chats, upd \in Updates :
             Unlisted(conversations[Key(c, u)], upd) => ~Handles(u, c, upd)]_vars

\* C17, witness: before any time has passed, with the conversation of one
\* chat waiting for a button and that of the other for free text, the
\* latest update was one that no step of the flow handles
C17_Witness ==
    /\ now = 0
    /\ conversations[Key("c1", "u1")] = REPORT_TYPE
    /\ conversations[Key("c2", "u1")] = REPORT_TARGET
    /\ last.handler = "none"
    /\ user_cooldowns = EmptyDict

\* the step takes the conversation k from state s to the next state of the
\* flow, and it is the step of the flow that belongs there
Advances(k, s) ==
    /\ last'.chat = k[1]
    /\ last'.user = k[2]
    /\ \/ s = REPORT_TYPE /\ last'.handler = "report_type_callback"
                          /\ last'.data = "type_"
       \/ s = REPORT_TARGET /\ last'.handler = "report_target"
                            /\ last'.reply = "reason_menu"
       \/ s = REPORT_REASON /\ last'.handler = "report_reason_callback"
                            /\ last'.data = "reason_"
       \/ s = REPORT_DETAILS /\ last'.handler \in {"report_details", "skip_details"}
                             /\ last'.reply = "summary"

\* C18: a conversation moves only along the flow: with no conversation,
\* only to REPORT_TYPE and only by /report; from a state of the flow only
\* to the same state, to the next one or to the end, and to the next one
\* only by the step that belongs to the state: a type selection, an
\* accepted target, a reason selection, details or /skip.  A report is
\* composed only in a step that takes a conversation from CONFIRMATION to
\* the end, so every report comes after these four steps, in this order,
\* in its conversation.
C18_LinearOrder ==
    [][/\ \A k \in DOMAIN conversations :
             LET s == conversations[k]
                 t == conversations'[k]
             IN  /\ s = END => t \in {END, REPORT_TYPE}
                 /\ (s = END /\ t = REPORT_TYPE)
                        => (last'.handler = "report_command" /\ last'.chat = k[1]
                                                            /\ last'.user = k[2])
                 /\ s = CONFIRMATION => t \in {CONFIRMATION, END}
                 /\ s \in REPORT_TYPE..REPORT_DETAILS => t \in {s, s + 1, END}
                 /\ (s \in REPORT_TYPE..REPORT_DETAILS /\ t = s + 1) => Advances(k, s)
       /\ Dispatches
            => /\ conversations[Key(last'.chat, last'.user)] = CONFIRMATION
               /\ conversations'[Key(last'.chat, last'.user)] = END
               /\ last'.data = "confirm"]_vars

\* C18, witness: a report was composed for a conversation that went through
\* the flow with /skip as its details step
C18_Witness ==
    /\ last.handler = "confirmation_callback"
    /\ last.reply = "success"
    /\ last.text.details = NoDetails
    /\ dispatched = 1

\* C19: the report composed on confirm is made of the type, the target, the
\* reason and the details that the user entered in the conversation since
\* the /report that opened it.
C19_ReportOfThisSession ==
    [][Dispatches
          => LET e == entered[Key(last'.chat, last'.user)] IN
             /\ DraftKeys \subseteq DOMAIN e
             /\ last'.text.type = REPORT_TYPES[e["report_type"]]
             /\ last'.text.target = e["report_target"]
             /\ last'.text.reason = Capitalize[e["report_reason"]]
             /\ last'.text.details = e["report_details"]
             /\ last'.text.reporter = last'.user]_vars

\* C20: the number of seconds given in the cooldown message is at least 0
\* and at most REPORT_COOLDOWN, whatever time passes between the test of
\* the cooldown and the second reading of the clock.
C20_RemainingInRange ==
    (last.handler = "report_command" /\ last.reply = "cooldown")
        => (0 <= last.remaining /\ last.remaining <= REPORT_COOLDOWN)

====
